---- MODULE Spec2Model ----
(***************************************************************************)
(* Knowledge & Inference Engine of havilogger (apps/api/app).              *)
(*                                                                         *)
(* The two stores (inferences, knowledge_items) are modelled as one        *)
(* logical store each; the operations of inferences.py and db.py and the   *)
(* resolve endpoint of main.py act on them.                                *)
(*                                                                         *)
(* Conventions                                                             *)
(*  - an Inference's id is its index in `inferences` (AUTOINCREMENT rowid, *)
(*    rows are never deleted);                                             *)
(*  - `knowledge` is kept in ascending updated_at order: every statement   *)
(*    that writes updated_at moves the row to the end, so                  *)
(*    "ORDER BY updated_at DESC LIMIT 1" is the last matching row;         *)
(*  - None is NoneId for ids and timestamps; confidences are in 1/100;     *)
(*  - payloads are functions from field names to values (Python dicts).    *)
(***************************************************************************)
EXTENDS Integers, Sequences, FiniteSets, TLC

VARIABLES inferences, knowledge, now, req, ret, fin

vars == <<inferences, knowledge, now, req, ret, fin>>

----------------------------------------------------------------------------
(* Bounds of the model *)

MaxInferences == 2
MaxItems == 2
MaxNow == 1
MaxPending == 2
MaxPrompts == 2
MaxAge == 28
MaxList == 2

(* Program constants *)

NoneId == -1
DefaultConfidence == 50
ListLimit == 50
InferenceListLimit == 50
ConfidenceThreshold == 60

----------------------------------------------------------------------------
(* Enumerations: InferenceStatus, KnowledgeItemStatus, KnowledgeItemType *)

InferenceStatus == {"pending", "confirmed", "rejected", "expired"}
KnowledgeItemStatus == {"active", "pending", "rejected"}
KnowledgeItemType == {"explicit", "inferred"}

----------------------------------------------------------------------------
(* Payload helpers: Python dict operations *)

EmptyPayload == [x \in {} |-> ""]

Has(p, k) == k \in DOMAIN p

Put(p, k, v) == [x \in (DOMAIN p) \cup {k} |-> IF x = k THEN v ELSE p[x]]

(* dict.get(k) used in a truth test: a missing or empty value is falsy *)
Truthy(p, k) == Has(p, k) /\ p[k] # ""

(* payload.get(k) or []: a list-valued field *)
ListOf(p, k) == IF Has(p, k) THEN p[k] ELSE <<>>

(* the dict without the key k *)
Without(p, k) == [x \in (DOMAIN p) \ {k} |-> p[x]]

Elems(s) == {s[i] : i \in 1..Len(s)}

----------------------------------------------------------------------------
(* Inputs: what the text extractors propose, the callers' ids and payloads *)

ChildIds == {1}
ProfileIds == {1}

CareFramework ==
    [type |-> "care_framework",
     payload |-> [framework |-> "moms_on_call",
                  evidence |-> "we follow moms on call", source |-> "chat"]]

PrematureWeeks ==
    [type |-> "child_prematurity",
     payload |-> [gestational_age_weeks |-> "34", weeks_early |-> "6",
                  is_premature |-> "true", source |-> "chat"]]

Candidates == {CareFramework, PrematureWeeks}

(* the candidate lists one message yields *)
Messages == {<<CareFramework>>, <<PrematureWeeks>>, <<CareFramework, PrematureWeeks>>}

(* the same framework named in another message: the evidence differs *)
CareFrameworkAgain ==
    [type |-> "care_framework",
     payload |-> [framework |-> "moms_on_call",
                  evidence |-> "moms on call works for us", source |-> "chat"]]

(* _detect_activity_payload on "loves water play" and on "loves reading books" *)
WaterPlay ==
    [type |-> "child_activity_preferences",
     payload |-> [favorite_activities |-> <<"water play">>,
                  tags |-> <<"sensory", "water">>, source |-> "chat"]]

ReadingBooks ==
    [type |-> "child_activity_preferences",
     payload |-> [favorite_activities |-> <<"reading books">>,
                  tags |-> <<"reading", "quiet_play">>, source |-> "chat"]]

DetectionCandidates ==
    {CareFramework, CareFrameworkAgain, PrematureWeeks, WaterPlay, ReadingBooks}

(* one candidate per message *)
DetectionMessages == {<<c>> : c \in DetectionCandidates}

(* the settings writer: set_explicit_knowledge(profile, "child_prematurity", ...) *)
Keys == {"child_prematurity"}

ExplicitPayloads ==
    {[is_premature |-> "true", gestational_age_weeks |-> "36",
      weeks_early |-> "4", source |-> "settings"]}

(* the statuses a caller asks update_inference_status for *)
StatusRequests == {"pending", "confirmed", "rejected"}

----------------------------------------------------------------------------
(* Small sequence helpers *)

Min(S) == CHOOSE x \in S : \A y \in S : x <= y

RemoveAt(s, i) == SubSeq(s, 1, i - 1) \o SubSeq(s, i + 1, Len(s))

Take(s, n) == SubSeq(s, 1, IF Len(s) < n THEN Len(s) ELSE n)

----------------------------------------------------------------------------
(* inferences.py: identity and the Inference store *)

NoKey == <<>>

(* f"{child_id or 'none'}::{inference_type}::{sha256(canonical json)}";    *)
(* the hash of the sorted-key dump is taken as injective on the dict.      *)
dedupe_key_of(child_id, inference_type, payload) ==
    <<IF child_id = NoneId \/ child_id = 0 THEN NoneId ELSE child_id,
      inference_type, payload>>

(* SELECT ... WHERE dedupe_key = ? LIMIT 1: SQLite scans in rowid order *)
get_inference_by_dedupe_key(infs, dk) ==
    LET m == {i \in 1..Len(infs) : infs[i].dedupe_key = dk}
    IN IF m = {} THEN NoneId ELSE Min(m)

NewInference(data, dk, t) ==
    [child_id |-> data.child_id,
     inference_type |-> data.inference_type,
     payload |-> data.payload,
     confidence |-> data.confidence,
     status |-> data.status,
     expires_at |-> data.expires_at,
     dedupe_key |-> dk,
     last_prompted_at |-> NoneId]

(* a variant that skips the existence check *)
create_inference_no_lookup(infs, data, t) ==
    LET dk == dedupe_key_of(data.child_id, data.inference_type, data.payload)
    IN [infs |-> Append(infs, NewInference(data, dk, t)), id |-> Len(infs) + 1]

(* a variant that treats a rejected row as absent *)
create_inference_recreate_rejected(infs, data, t) ==
    LET dk == dedupe_key_of(data.child_id, data.inference_type, data.payload)
        existing == get_inference_by_dedupe_key(infs, dk)
    IN IF existing # NoneId /\ infs[existing].status # "rejected"
       THEN [infs |-> infs, id |-> existing]
       ELSE [infs |-> Append(infs, NewInference(data, dk, t)), id |-> Len(infs) + 1]

create_inference(infs, data, t) ==
    LET dk == dedupe_key_of(data.child_id, data.inference_type, data.payload)
        existing == get_inference_by_dedupe_key(infs, dk)
    IN IF existing # NoneId
       THEN [infs |-> infs, id |-> existing]
       ELSE [infs |-> Append(infs, NewInference(data, dk, t)), id |-> Len(infs) + 1]

(* SELECT * FROM inferences WHERE id = ?; a miss raises ValueError *)
get_inference(infs, id) ==
    IF id \in 1..Len(infs)
    THEN [ok |-> TRUE, id |-> id, row |-> infs[id]]
    ELSE [ok |-> FALSE, id |-> id, row |-> NoneId]

(* ids in ORDER BY created_at DESC, filtered by child_id and status; the   *)
(* query has no expires_at clause.                                         *)
RECURSIVE ListScan(_, _, _, _)
ListScan(infs, i, child_id, status) ==
    IF i = 0 THEN <<>>
    ELSE LET keep == /\ (child_id = NoneId \/ infs[i].child_id = child_id)
                     /\ (status = "" \/ infs[i].status = status)
         IN (IF keep THEN <<i>> ELSE <<>>) \o ListScan(infs, i - 1, child_id, status)

list_inferences(infs, child_id, status, limit) ==
    Take(ListScan(infs, Len(infs), child_id, status), limit)

(* a variant that rejects every edge but pending -> confirmed / rejected *)
update_inference_status_guarded(infs, id, status) ==
    IF id \in 1..Len(infs) /\ infs[id].status = "pending"
                           /\ status \in {"confirmed", "rejected"}
    THEN [infs EXCEPT ![id].status = status]
    ELSE infs

(* UPDATE inferences SET status = ? WHERE id = ? *)
update_inference_status(infs, id, status) ==
    IF id \in 1..Len(infs)
    THEN [infs EXCEPT ![id].status = status]
    ELSE infs

(* a variant that stamps every row *)
mark_inferences_prompted_all(infs, dedupe_keys, t) ==
    IF dedupe_keys = <<>> THEN infs
    ELSE [i \in 1..Len(infs) |-> [infs[i] EXCEPT !.last_prompted_at = t]]

(* UPDATE inferences SET last_prompted_at = ? WHERE dedupe_key = ?, once   *)
(* per key; an empty list returns before touching the store                *)
mark_inferences_prompted(infs, dedupe_keys, t) ==
    IF dedupe_keys = <<>> THEN infs
    ELSE [i \in 1..Len(infs) |->
            IF infs[i].dedupe_key \in Elems(dedupe_keys)
            THEN [infs[i] EXCEPT !.last_prompted_at = t]
            ELSE infs[i]]

----------------------------------------------------------------------------
(* inferences.py: merge handlers *)

(* _merge_sources *)
merge_sources(existing, incoming) ==
    IF Truthy(existing, "source") /\ Truthy(incoming, "source")
       /\ existing["source"] # incoming["source"]
    THEN "chat+settings"
    ELSE IF Truthy(incoming, "source") THEN incoming["source"]
    ELSE IF Truthy(existing, "source") THEN existing["source"]
    ELSE "chat"

(* merged[key] = incoming[key] when incoming.get(key) is not None *)
CopyField(merged, incoming, k) ==
    IF Has(incoming, k) THEN Put(merged, k, incoming[k]) ELSE merged

(* _merge_prematurity *)
merge_prematurity(existing, incoming) ==
    LET m1 == CopyField(existing, incoming, "is_premature")
        m2 == CopyField(m1, incoming, "gestational_age_weeks")
        m3 == CopyField(m2, incoming, "weeks_early")
    IN Put(m3, "source", merge_sources(existing, incoming))

(* a variant of the loop that appends every non-empty value *)
RECURSIVE merge_unique_keep_duplicates(_, _)
merge_unique_keep_duplicates(base, additions) ==
    IF additions = <<>> THEN base
    ELSE LET value == Head(additions)
         IN merge_unique_keep_duplicates(
                IF value # "" THEN Append(base, value) ELSE base, Tail(additions))

(* _merge_unique: result starts as list(base), seen as set(base); a value   *)
(* of additions is appended when it is truthy and not in seen               *)
RECURSIVE merge_unique(_, _)
merge_unique(base, additions) ==
    IF additions = <<>> THEN base
    ELSE LET value == Head(additions)
         IN merge_unique(
                IF value # "" /\ value \notin Elems(base) THEN Append(base, value)
                ELSE base,
                Tail(additions))

(* _merge_activity_preferences: a fresh dict of three fields *)
merge_activity_preferences(existing, incoming) ==
    [favorite_activities |-> merge_unique(ListOf(existing, "favorite_activities"),
                                          ListOf(incoming, "favorite_activities")),
     tags |-> merge_unique(ListOf(existing, "tags"), ListOf(incoming, "tags")),
     source |-> IF Has(incoming, "source") THEN incoming["source"] ELSE "chat"]

(* _MERGE_HANDLERS: the keys that have a handler *)
MERGE_HANDLERS ==
    {"child_activity_preferences", "child_milestone_profile", "child_prematurity",
     "places_of_interest", "family_diet", "child_solids_profile"}

(* the handler of a key of this model *)
merge_fn(key, existing, incoming) ==
    CASE key = "child_prematurity" -> merge_prematurity(existing, incoming)
      [] key = "child_activity_preferences" ->
            merge_activity_preferences(existing, incoming)
      [] OTHER -> incoming

----------------------------------------------------------------------------
(* db.py: the KnowledgeItem store *)

NoStatus == ""

(* position of the row with this id, 0 when there is none *)
PosOf(know, id) ==
    LET m == {i \in 1..Len(know) : know[i].id = id}
    IN IF m = {} THEN 0 ELSE Min(m)

(* INSERT INTO knowledge_items ...: a new id, created_at = updated_at = now *)
create_knowledge_item(know, profile_id, key, type, status, payload) ==
    Append(know, [id |-> Len(know) + 1,
                  profile_id |-> profile_id,
                  key |-> key,
                  type |-> type,
                  status |-> status,
                  payload |-> payload,
                  confidence |-> "",
                  qualifier |-> "",
                  last_prompted_at |-> NoneId])

(* ... WHERE profile_id = ? AND key = ? ORDER BY updated_at DESC LIMIT 1:  *)
(* the position of the row, 0 for None                                     *)
find_knowledge_item(know, profile_id, key) ==
    LET m == {i \in 1..Len(know) :
                 know[i].profile_id = profile_id /\ know[i].key = key}
    IN IF m = {} THEN 0 ELSE CHOOSE i \in m : \A j \in m : j <= i

(* positions of ... WHERE profile_id = ? ORDER BY updated_at DESC LIMIT ?  *)
RECURSIVE KnowledgeScan(_, _, _, _)
KnowledgeScan(know, i, profile_id, status) ==
    IF i = 0 THEN <<>>
    ELSE LET keep == /\ know[i].profile_id = profile_id
                     /\ (status = NoStatus \/ know[i].status = status)
         IN (IF keep THEN <<know[i]>> ELSE <<>>)
            \o KnowledgeScan(know, i - 1, profile_id, status)

list_knowledge_items(know, profile_id, status, limit) ==
    Take(KnowledgeScan(know, Len(know), profile_id, status), limit)

(* UPDATE knowledge_items SET status = ?, updated_at = ? WHERE id = ? *)
update_knowledge_item_status(know, id, status) ==
    LET pos == PosOf(know, id)
    IN IF pos = 0 THEN know
       ELSE Append(RemoveAt(know, pos), [know[pos] EXCEPT !.status = status])

(* UPDATE knowledge_items SET [status = ?,] payload = ?, updated_at = ? *)
update_knowledge_item_payload(know, id, payload, status) ==
    LET pos == PosOf(know, id)
        row == IF status = NoStatus
               THEN [know[pos] EXCEPT !.payload = payload]
               ELSE [know[pos] EXCEPT !.payload = payload, !.status = status]
    IN IF pos = 0 THEN know ELSE Append(RemoveAt(know, pos), row)

(* UPDATE knowledge_items SET last_prompted_at = ? WHERE id = ?, once per   *)
(* id; updated_at is not written; an empty list returns at once            *)
mark_knowledge_prompted(know, item_ids, t) ==
    IF item_ids = <<>> THEN know
    ELSE [n \in 1..Len(know) |->
            IF know[n].id \in Elems(item_ids)
            THEN [know[n] EXCEPT !.last_prompted_at = t]
            ELSE know[n]]

(* _reject_inferred_knowledge: the loop over the listed items *)
RECURSIVE RejectLoop(_, _, _, _)
RejectLoop(know, items, i, key) ==
    IF i > Len(items) THEN know
    ELSE LET item == items[i]
             hit == item.key = key /\ item.type = "inferred" /\ item.status = "active"
         IN RejectLoop(IF hit THEN update_knowledge_item_status(know, item.id, "rejected")
                              ELSE know,
                       items, i + 1, key)

reject_inferred_knowledge(know, profile_id, key) ==
    RejectLoop(know, list_knowledge_items(know, profile_id, NoStatus, ListLimit), 1, key)

(* a variant that never rejects the inferred items *)
set_explicit_knowledge_keep_inferred(know, profile_id, key, payload) ==
    LET pos == find_knowledge_item(know, profile_id, key)
    IN IF pos # 0 /\ know[pos].type = "explicit"
       THEN update_knowledge_item_payload(know, know[pos].id, payload, "active")
       ELSE create_knowledge_item(know, profile_id, key, "explicit", "active", payload)

set_explicit_knowledge(know, profile_id, key, payload) ==
    LET pos == find_knowledge_item(know, profile_id, key)
    IN IF pos # 0 /\ know[pos].type = "explicit"
       THEN update_knowledge_item_payload(know, know[pos].id, payload, "active")
       ELSE create_knowledge_item(reject_inferred_knowledge(know, profile_id, key),
                                  profile_id, key, "explicit", "active", payload)

----------------------------------------------------------------------------
(* inferences.py: the inferred upsert and the detection loop *)

persist_pending_knowledge(know, profile_id, key, payload, dk) ==
    IF profile_id = NoneId THEN know
    ELSE
      LET pos == find_knowledge_item(know, profile_id, key)
          has_merge == key \in MERGE_HANDLERS
      IN IF pos # 0 /\ know[pos].status # "rejected"
         THEN IF has_merge
              THEN update_knowledge_item_payload(
                       know, know[pos].id,
                       merge_fn(key, know[pos].payload, payload), NoStatus)
              ELSE know
         ELSE LET p1 == IF has_merge /\ pos # 0
                        THEN merge_fn(key, know[pos].payload, payload)
                        ELSE payload
                  p2 == IF dk # NoKey THEN Put(p1, "_dedupe_key", dk) ELSE p1
              IN create_knowledge_item(know, profile_id, key, "inferred", "pending", p2)

CreateInferencePayload(child_id, cand, expires_at) ==
    [child_id |-> child_id,
     inference_type |-> cand.type,
     payload |-> cand.payload,
     confidence |-> DefaultConfidence,
     status |-> "pending",
     expires_at |-> expires_at]

(* the loop over the candidates of detect_knowledge_inferences *)
RECURSIVE DetectLoop(_, _, _, _, _, _, _)
DetectLoop(infs, know, created, cands, child_id, profile_id, t) ==
    IF cands = <<>> THEN [infs |-> infs, know |-> know, created |-> created]
    ELSE LET c == Head(cands)
             r == create_inference(infs, CreateInferencePayload(child_id, c, NoneId), t)
             k == persist_pending_knowledge(know, profile_id, c.type, c.payload,
                                            r.infs[r.id].dedupe_key)
         IN DetectLoop(r.infs, k, Append(created, r.id), Tail(cands),
                       child_id, profile_id, t)

detect_knowledge_inferences(infs, know, cands, child_id, profile_id, t) ==
    DetectLoop(infs, know, <<>>, cands, child_id, profile_id, t)

----------------------------------------------------------------------------
(* main.py: the resolve endpoint *)

ResolveActions == {"confirm_general", "confirm_qualified", "reject"}

(* a variant that also rejects the KnowledgeItems of the inference's type *)
resolve_inference_reject_items(infs, know, id) ==
    [infs |-> [infs EXCEPT ![id].status = "rejected"],
     know |-> [i \in 1..Len(know) |->
                 IF know[i].key = infs[id].inference_type
                 THEN [know[i] EXCEPT !.status = "rejected"]
                 ELSE know[i]]]

(* action == "reject": one update of the inferences table *)
resolve_inference_reject(infs, know, id) ==
    [infs |-> [infs EXCEPT ![id].status = "rejected"], know |-> know]

confirm_confidence(action) == IF action = "confirm_general" THEN "medium" ELSE "low"

confirm_qualifier(action) == IF action = "confirm_general" THEN "" ELSE "sometimes"

(* _create_knowledge_from_inference: the insert into knowledge_items *)
create_knowledge_from_inference(know, inference_row, inference_id, profile_id, confidence, qualifier) ==
    Append(know, [id |-> Len(know) + 1,
                  profile_id |-> profile_id,
                  key |-> inference_row.inference_type,
                  type |-> "inferred",
                  status |-> "active",
                  payload |-> Put(inference_row.payload, "source_inference_id",
                                  inference_id),
                  confidence |-> confidence,
                  qualifier |-> qualifier,
                  last_prompted_at |-> NoneId])

----------------------------------------------------------------------------------------------------------------------------------------------------
(* main.py: the Confidence & Expiry Policy *)

(* a variant with a strict first bracket *)
get_dtu_strict(child_age_weeks) ==
    IF child_age_weeks = NoneId THEN "unknown"
    ELSE IF child_age_weeks < 4 THEN "newborn"
    ELSE IF child_age_weeks <= 26 THEN "infant"
    ELSE "older"

get_dtu(child_age_weeks) ==
    IF child_age_weeks = NoneId THEN "unknown"
    ELSE IF child_age_weeks <= 4 THEN "newborn"
    ELSE IF child_age_weeks <= 26 THEN "infant"
    ELSE "older"

inference_expiry_days(dtu) ==
    IF dtu = "newborn" THEN 14 ELSE IF dtu = "infant" THEN 30 ELSE 90

(* in hundredths *)
inference_min_confidence(dtu) ==
    IF dtu = "newborn" THEN 45 ELSE IF dtu = "infant" THEN 50 ELSE 55

----------------------------------------------------------------------------
(* knowledge_utils.py: the prompt eligibility filter *)

(* a datetime: its instant and whether it carries a timezone; None is NoTime *)
NoTime == [t |-> NoneId, aware |-> FALSE]

Naive(t) == [t |-> t, aware |-> FALSE]

Aware(t) == [t |-> t, aware |-> TRUE]

(* inference_lookup.get(dedupe_key) if inference_lookup else None *)
NoMeta == [present |-> FALSE]

Meta(status, confidence, last_prompted_at, related) ==
    [present |-> TRUE, status |-> status, confidence |-> confidence,
     last_prompted_at |-> last_prompted_at, related_to_message |-> related]

LookupGet(lookup, dk) == IF dk \in DOMAIN lookup THEN lookup[dk] ELSE NoMeta

ItemDedupeKey(item) ==
    IF Has(item.payload, "_dedupe_key") THEN item.payload["_dedupe_key"] ELSE NoKey

(* a variant whose confidence test also skips an item at the threshold *)
FilterStep_at_threshold(item, lookup, t, window, threshold) ==
    LET meta == LookupGet(lookup, ItemDedupeKey(item))
        own == item.last_prompted_at
    IN IF item.status # "pending" THEN "skip"
       ELSE IF meta.present /\ meta.status = "rejected" THEN "skip"
       ELSE IF meta.present /\ meta.last_prompted_at # NoTime
               /\ meta.last_prompted_at.aware THEN "raise"
       ELSE IF meta.present /\ meta.last_prompted_at # NoTime
               /\ t - meta.last_prompted_at.t < window THEN "skip"
       ELSE IF meta.present /\ meta.confidence <= threshold
               /\ ~meta.related_to_message THEN "skip"
       ELSE IF own # NoTime /\ own.aware THEN "raise"
       ELSE IF own # NoTime /\ t - own.t < window THEN "skip"
       ELSE "take"

(* what one pass of the loop body does with an item: "skip" (continue),    *)
(* "take" (append) or "raise" (now - dt with now naive and dt aware is a   *)
(* TypeError that nothing catches)                                         *)
FilterStep(item, lookup, t, window, threshold) ==
    LET meta == LookupGet(lookup, ItemDedupeKey(item))
        own == item.last_prompted_at
    IN IF item.status # "pending" THEN "skip"
       ELSE IF meta.present /\ meta.status = "rejected" THEN "skip"
       ELSE IF meta.present /\ meta.last_prompted_at # NoTime
               /\ meta.last_prompted_at.aware THEN "raise"
       ELSE IF meta.present /\ meta.last_prompted_at # NoTime
               /\ t - meta.last_prompted_at.t < window THEN "skip"
       ELSE IF meta.present /\ meta.confidence < threshold
               /\ ~meta.related_to_message THEN "skip"
       ELSE IF own # NoTime /\ own.aware THEN "raise"
       ELSE IF own # NoTime /\ t - own.t < window THEN "skip"
       ELSE "take"

(* a variant of the loop that stops one item late *)
RECURSIVE FilterLoopLate(_, _, _, _, _, _, _, _)
FilterLoopLate(pending, i, eligible, lookup, t, window, max_prompts, threshold) ==
    IF i > Len(pending) THEN [raised |-> FALSE, items |-> eligible]
    ELSE LET step == FilterStep(pending[i], lookup, t, window, threshold)
         IN IF step = "raise" THEN [raised |-> TRUE, items |-> <<>>]
            ELSE IF step = "skip"
            THEN FilterLoopLate(pending, i + 1, eligible, lookup, t, window,
                                max_prompts, threshold)
            ELSE LET e2 == Append(eligible, pending[i])
                 IN IF max_prompts # 0 /\ Len(e2) > max_prompts
                    THEN [raised |-> FALSE, items |-> e2]
                    ELSE FilterLoopLate(pending, i + 1, e2, lookup, t, window,
                                        max_prompts, threshold)

filter_pending_for_prompt_late(pending, cooldown_hours, max_prompts, inference_lookup, confidence_threshold, t) ==
    FilterLoopLate(pending, 1, <<>>, inference_lookup, t, cooldown_hours,
                   max_prompts, confidence_threshold)

(* the for loop: `if max_prompts and len(eligible) >= max_prompts: break` *)
RECURSIVE FilterLoop(_, _, _, _, _, _, _, _)
FilterLoop(pending, i, eligible, lookup, t, window, max_prompts, threshold) ==
    IF i > Len(pending) THEN [raised |-> FALSE, items |-> eligible]
    ELSE LET step == FilterStep(pending[i], lookup, t, window, threshold)
         IN IF step = "raise" THEN [raised |-> TRUE, items |-> <<>>]
            ELSE IF step = "skip"
            THEN FilterLoop(pending, i + 1, eligible, lookup, t, window,
                            max_prompts, threshold)
            ELSE LET e2 == Append(eligible, pending[i])
                 IN IF max_prompts # 0 /\ Len(e2) >= max_prompts
                    THEN [raised |-> FALSE, items |-> e2]
                    ELSE FilterLoop(pending, i + 1, e2, lookup, t, window,
                                    max_prompts, threshold)

(* t is datetime.utcnow(), cooldown_hours the window in hours *)
filter_pending_for_prompt(pending, cooldown_hours, max_prompts, inference_lookup, confidence_threshold, t) ==
    FilterLoop(pending, 1, <<>>, inference_lookup, t, cooldown_hours,
               max_prompts, confidence_threshold)

----
(* The state machine *)

NoReq == [id |-> NoneId, action |-> ""]
NoRet == [op |-> "none"]
NoFilterInput == <<>>

Init ==
    /\ inferences = <<>>
    /\ knowledge = <<>>
    /\ now = 0
    /\ req = NoReq
    /\ ret = NoRet
    /\ fin = NoFilterInput

(* a direct call of create_inference *)
CreateInference(child_id, cand, expires_at) ==
    LET r == create_inference(inferences,
                              CreateInferencePayload(child_id, cand, expires_at), now)
    IN /\ Len(r.infs) <= MaxInferences
       /\ inferences' = r.infs
       /\ UNCHANGED <<knowledge, now, req, ret, fin>>

(* one chat message whose extractors yield the candidates msg *)
Detect(child_id, profile_id, msg) ==
    LET r == detect_knowledge_inferences(inferences, knowledge, msg,
                                         child_id, profile_id, now)
    IN /\ Len(r.infs) <= MaxInferences
       /\ Len(r.know) <= MaxItems
       /\ inferences' = r.infs
       /\ knowledge' = r.know
       /\ UNCHANGED <<now, req, ret, fin>>

(* update_inference_status(id, status=...); get_inference raises on a miss *)
UpdateInferenceStatus(id, status) ==
    /\ inferences' = update_inference_status(inferences, id, status)
    /\ UNCHANGED <<knowledge, now, req, ret, fin>>

(* resolve_inference, action reject *)
ResolveReject(id) ==
    /\ id \in 1..Len(inferences)
    /\ LET r == resolve_inference_reject(inferences, knowledge, id)
       IN inferences' = r.infs /\ knowledge' = r.know
    /\ UNCHANGED <<now, req, ret, fin>>

(* resolve_inference, a confirm action: the select and the item insert *)
ResolveConfirmInsert(id, action, profile_id) ==
    /\ req = NoReq
    /\ id \in 1..Len(inferences)
    /\ Len(knowledge) < MaxItems
    /\ knowledge' = create_knowledge_from_inference(
                        knowledge, inferences[id], id, profile_id,
                        confirm_confidence(action), confirm_qualifier(action))
    /\ req' = [id |-> id, action |-> action]
    /\ UNCHANGED <<inferences, now, ret, fin>>

(* ... then the update of the inference row succeeds *)
ResolveConfirmUpdate ==
    /\ req # NoReq
    /\ inferences' = [inferences EXCEPT ![req.id].status = "confirmed"]
    /\ req' = NoReq
    /\ UNCHANGED <<knowledge, now, ret, fin>>

(* ... or the store answers the update with an error, which propagates *)
ResolveConfirmUpdateFails ==
    /\ req # NoReq
    /\ req' = NoReq
    /\ UNCHANGED <<inferences, knowledge, now, ret, fin>>

(* set_explicit_knowledge(profile_id, key, payload) *)
SetExplicit(profile_id, key, payload) ==
    LET k == set_explicit_knowledge(knowledge, profile_id, key, payload)
    IN /\ Len(k) <= MaxItems
       /\ knowledge' = k
       /\ UNCHANGED <<inferences, now, req, ret, fin>>

(* update_knowledge_item_status(item_id, status) *)
UpdateKnowledgeItemStatus(id, status) ==
    /\ knowledge' = update_knowledge_item_status(knowledge, id, status)
    /\ UNCHANGED <<inferences, now, req, ret, fin>>

(* wall-clock time passes *)
Tick ==
    /\ now < MaxNow
    /\ now' = now + 1
    /\ UNCHANGED <<inferences, knowledge, req, ret, fin>>

(* mark_inferences_prompted(dedupe_keys) at the current time *)
MarkInferencesPrompted(dedupe_keys) ==
    /\ inferences' = mark_inferences_prompted(inferences, dedupe_keys, now)
    /\ UNCHANGED <<knowledge, now, req, ret, fin>>

(* the key lists a caller passes: empty, unknown, one key, two keys *)
UnknownKey == <<NoneId, "unknown", EmptyPayload>>

CandidateKeys ==
    {dedupe_key_of(c, cand.type, cand.payload) : c \in ChildIds, cand \in Candidates}

PromptKeyLists ==
    {<<>>, <<UnknownKey>>}
    \cup {<<k>> : k \in CandidateKeys}
    \cup {<<k, UnknownKey>> : k \in CandidateKeys}
    \cup {<<k1, k2>> : k1 \in CandidateKeys, k2 \in CandidateKeys}

(* the caller's expires_at: none, or a fixed instant *)
ExpiryChoices == {NoneId, 0}

(* The operations on the two stores *)
Next ==
    \/ \E c \in ChildIds, cand \in Candidates : CreateInference(c, cand, NoneId)
    \/ \E c \in ChildIds, p \in ProfileIds, m \in Messages : Detect(c, p, m)
    \/ \E id \in 1..MaxInferences, st \in StatusRequests : UpdateInferenceStatus(id, st)
    \/ \E id \in 1..MaxInferences : ResolveReject(id)
    \/ \E id \in 1..MaxInferences, a \in ResolveActions \ {"reject"}, p \in ProfileIds :
          ResolveConfirmInsert(id, a, p)
    \/ ResolveConfirmUpdate
    \/ ResolveConfirmUpdateFails
    \/ \E p \in ProfileIds, k \in Keys, pl \in ExplicitPayloads : SetExplicit(p, k, pl)
    \/ \E id \in 1..MaxItems, st \in KnowledgeItemStatus : UpdateKnowledgeItemStatus(id, st)

Spec == Init /\ [][Next]_vars

(* The Inference store over time: creation with an expiry, status changes, *)
(* and the clock                                                           *)
NextInference ==
    \/ \E c \in ChildIds, cand \in Candidates, e \in ExpiryChoices :
          CreateInference(c, cand, e)
    \/ \E id \in 1..MaxInferences, st \in StatusRequests : UpdateInferenceStatus(id, st)
    \/ \E id \in 1..MaxInferences : ResolveReject(id)
    \/ \E keys \in PromptKeyLists : MarkInferencesPrompted(keys)
    \/ Tick

SpecInference == Init /\ [][NextInference]_vars

(* Detection over several messages, with the user's answers in between:    *)
(* the inferred upsert, the merges, rejection of an Inference and status   *)
(* changes of a KnowledgeItem                                              *)
NextDetection ==
    \/ \E c \in ChildIds, p \in ProfileIds, m \in DetectionMessages : Detect(c, p, m)
    \/ \E id \in 1..MaxInferences : ResolveReject(id)
    \/ \E id \in 1..MaxItems, st \in KnowledgeItemStatus : UpdateKnowledgeItemStatus(id, st)

SpecDetection == Init /\ [][NextDetection]_vars

(* The KnowledgeItem store under its three writers: detections, the        *)
(* settings writer and status updates                                      *)
NextKnowledge ==
    \/ \E c \in ChildIds, p \in ProfileIds, m \in Messages : Detect(c, p, m)
    \/ \E p \in ProfileIds, k \in Keys, pl \in ExplicitPayloads : SetExplicit(p, k, pl)
    \/ \E id \in 1..MaxItems, st \in KnowledgeItemStatus : UpdateKnowledgeItemStatus(id, st)

SpecKnowledge == Init /\ [][NextKnowledge]_vars

----------------------------------------------------------------------------
(* Overlapping create_inference calls: each call is a SELECT by dedupe_key *)
(* and, on a miss, an INSERT on a connection of its own; the table has no  *)
(* UNIQUE constraint on dedupe_key.  req[p] is the position of caller p,   *)
(* ret[p] the id of the row the last call of p returned.                   *)

Procs == {1, 2}

Idle == [pc |-> "idle"]

InFlight(pc) == {p \in Procs : req[p].pc = pc}

Quiescent == \A p \in Procs : req[p] = Idle

InitCreateRace ==
    /\ inferences = <<>>
    /\ knowledge = <<>>
    /\ now = 0
    /\ req = [p \in Procs |-> Idle]
    /\ ret = [p \in Procs |-> NoneId]
    /\ fin = NoFilterInput

(* get_inference_by_dedupe_key inside create_inference: a hit returns the  *)
(* existing row, a miss leaves the caller in front of its INSERT           *)
CreateCheck(p, child_id, cand) ==
    LET data == CreateInferencePayload(child_id, cand, NoneId)
        dk == dedupe_key_of(data.child_id, data.inference_type, data.payload)
        existing == get_inference_by_dedupe_key(inferences, dk)
    IN /\ req[p] = Idle
       /\ IF existing # NoneId
          THEN /\ ret' = [ret EXCEPT ![p] = existing]
               /\ UNCHANGED req
          ELSE /\ Len(inferences) + Cardinality(InFlight("insert")) < MaxInferences
               /\ req' = [req EXCEPT ![p] = [pc |-> "insert", data |-> data, dk |-> dk]]
               /\ UNCHANGED ret
       /\ UNCHANGED <<inferences, knowledge, now, fin>>

(* the INSERT and get_inference(cursor.lastrowid) *)
CreateInsert(p) ==
    /\ req[p].pc = "insert"
    /\ inferences' = Append(inferences, NewInference(req[p].data, req[p].dk, now))
    /\ ret' = [ret EXCEPT ![p] = Len(inferences) + 1]
    /\ req' = [req EXCEPT ![p] = Idle]
    /\ UNCHANGED <<knowledge, now, fin>>

NextCreateRace ==
    \/ \E p \in Procs, c \in ChildIds, cand \in Candidates : CreateCheck(p, c, cand)
    \/ \E p \in Procs : CreateInsert(p)
    \/ \E id \in 1..MaxInferences, st \in StatusRequests : UpdateInferenceStatus(id, st)

SpecCreateRace == InitCreateRace /\ [][NextCreateRace]_vars

----------------------------------------------------------------------------
(* routes/knowledge.py: the review endpoints of a KnowledgeItem *)

(* payload.get("dismiss_count", 0) *)
DismissCount(payload) == IF Has(payload, "dismiss_count") THEN payload["dismiss_count"] ELSE 0

(* POST /knowledge/{item_id}/confirm: update of status, updated_at and      *)
(* activated_at; no row is a 404                                            *)
confirm_knowledge(know, id) ==
    LET pos == PosOf(know, id)
    IN IF pos = 0 THEN know
       ELSE Append(RemoveAt(know, pos), [know[pos] EXCEPT !.status = "active"])

(* POST /knowledge/{item_id}/reject: update of status and updated_at *)
reject_knowledge(know, id) ==
    LET pos == PosOf(know, id)
    IN IF pos = 0 THEN know
       ELSE Append(RemoveAt(know, pos), [know[pos] EXCEPT !.status = "rejected"])

(* the items under review: pending inferred preferences, with or without a *)
(* dismiss counter in the payload                                          *)
ReviewKeys == {"pref_bpa_free_products", "pref_baby_gear_budget"}

ReviewPayloads ==
    {[scope |-> "bottles"]}
    \cup {[scope |-> "bottles", dismiss_count |-> n] : n \in {0, 1, 4}}

SeedReviewItem(profile_id, key, payload) ==
    /\ Len(knowledge) < MaxItems
    /\ knowledge' = create_knowledge_item(knowledge, profile_id, key,
                                          "inferred", "pending", payload)
    /\ UNCHANGED <<inferences, now, req, ret, fin>>

ConfirmKnowledge(id) ==
    /\ knowledge' = confirm_knowledge(knowledge, id)
    /\ UNCHANGED <<inferences, now, req, ret, fin>>

RejectKnowledge(id) ==
    /\ knowledge' = reject_knowledge(knowledge, id)
    /\ UNCHANGED <<inferences, now, req, ret, fin>>

NextReview ==
    \/ \E p \in ProfileIds, k \in ReviewKeys, pl \in ReviewPayloads : SeedReviewItem(p, k, pl)
    \/ \E id \in 1..MaxItems : ConfirmKnowledge(id)
    \/ \E id \in 1..MaxItems : RejectKnowledge(id)

SpecReview == Init /\ [][NextReview]_vars

----------------------------------------------------------------------------
(* main.py: the "save to memory" command *)

(* _select_memory_text: the assistant's last message or the user's own *)
select_memory_text(target, user_message, assistant_message) ==
    IF target = "assistant" THEN assistant_message ELSE user_message

(* a variant that saves without looking at the pending knowledge *)
handle_memory_command_unblocked(know, target, profile_id, message, pending_knowledge, last_assistant_message) ==
    LET target_text == select_memory_text(target, message, last_assistant_message)
    IN IF target \notin {"assistant", "user"} THEN [know |-> know, reply |-> "none"]
       ELSE IF target_text = "" THEN [know |-> know, reply |-> "clarify"]
       ELSE IF profile_id # NoneId
       THEN [know |-> set_explicit_knowledge(know, profile_id, "manual_memory",
                                             [text |-> target_text]),
             reply |-> "saved"]
       ELSE [know |-> know, reply |-> "finish_profile"]

(* handle_memory_command: the store afterwards and which reply is built;   *)
(* a missing text (None or "") is ""                                       *)
handle_memory_command(know, target, profile_id, message, pending_knowledge, last_assistant_message) ==
    LET target_text == select_memory_text(target, message, last_assistant_message)
    IN IF target \notin {"assistant", "user"} THEN [know |-> know, reply |-> "none"]
       ELSE IF target_text = "" THEN [know |-> know, reply |-> "clarify"]
       ELSE IF pending_knowledge # <<>> /\ target = "user"
       THEN [know |-> know, reply |-> "confirm_pending"]
       ELSE IF profile_id # NoneId
       THEN [know |-> set_explicit_knowledge(know, profile_id, "manual_memory",
                                             [text |-> target_text]),
             reply |-> "saved"]
       ELSE [know |-> know, reply |-> "finish_profile"]

MemoryTargets == {"assistant", "user", "none"}

UserMessages == {"", "Remember this: we want to visit grandparents next weekend.", "Save to memory"}

AssistantMessages == {"", "A dream feed around 10pm can help."}

(* the pending knowledge the caller passes: none, or one pending item *)
PendingKnowledgeChoices ==
    {<<>>,
     create_knowledge_item(<<>>, 1, CareFramework.type, "inferred", "pending",
                           CareFramework.payload)}

HandleMemoryCommand(target, profile_id, message, pending_knowledge, last_assistant_message) ==
    LET r == handle_memory_command(knowledge, target, profile_id, message,
                                   pending_knowledge, last_assistant_message)
    IN /\ Len(r.know) <= MaxItems
       /\ knowledge' = r.know
       /\ ret' = [op |-> "handle_memory_command", target |-> target,
                  profile_id |-> profile_id,
                  text |-> select_memory_text(target, message, last_assistant_message),
                  pending_knowledge |-> pending_knowledge,
                  before |-> knowledge, reply |-> r.reply]
       /\ UNCHANGED <<inferences, now, req, fin>>

NextMemory ==
    \E t \in MemoryTargets, p \in ProfileIds \cup {NoneId}, m \in UserMessages,
       pk \in PendingKnowledgeChoices, a \in AssistantMessages :
          HandleMemoryCommand(t, p, m, pk, a)

SpecMemory == Init /\ [][NextMemory]_vars

----------------------------------------------------------------------------
(* Overlapping inferred upserts: _persist_pending_knowledge reads the       *)
(* latest item with find_knowledge_item and writes with                     *)
(* update_knowledge_item_payload or create_knowledge_item, each on a        *)
(* connection of its own.  req[p] holds what caller p has read, ret[p] the  *)
(* candidate of the last upsert p completed.                                *)

NoItem == [id |-> 0, status |-> "", payload |-> EmptyPayload]

NoCandidate == [type |-> "", payload |-> EmptyPayload]

ActivityCandidates == {WaterPlay, ReadingBooks}

(* the part of _persist_pending_knowledge after find_knowledge_item, with   *)
(* `existing` the row that call returned                                    *)
persist_after_find(know, existing, profile_id, key, payload, dk) ==
    LET has_merge == key \in MERGE_HANDLERS
    IN IF existing # NoItem /\ existing.status # "rejected"
       THEN IF has_merge
            THEN update_knowledge_item_payload(
                     know, existing.id, merge_fn(key, existing.payload, payload), NoStatus)
            ELSE know
       ELSE LET p1 == IF has_merge /\ existing # NoItem
                      THEN merge_fn(key, existing.payload, payload)
                      ELSE payload
                p2 == IF dk # NoKey THEN Put(p1, "_dedupe_key", dk) ELSE p1
            IN create_knowledge_item(know, profile_id, key, "inferred", "pending", p2)

InitUpsertRace ==
    /\ inferences = <<>>
    /\ knowledge = <<>>
    /\ now = 0
    /\ req = [p \in Procs |-> Idle]
    /\ ret = [p \in Procs |-> NoCandidate]
    /\ fin = NoFilterInput

(* existing = find_knowledge_item(profile_id, key) *)
PersistFind(p, profile_id, child_id, cand) ==
    LET pos == find_knowledge_item(knowledge, profile_id, cand.type)
        existing == IF pos = 0 THEN NoItem
                    ELSE [id |-> knowledge[pos].id, status |-> knowledge[pos].status,
                          payload |-> knowledge[pos].payload]
    IN /\ req[p] = Idle
       /\ (existing = NoItem \/ existing.status = "rejected")
             => Len(knowledge) + Cardinality({q \in InFlight("write") :
                                                req[q].existing = NoItem}) < MaxItems
       /\ req' = [req EXCEPT ![p] =
                     [pc |-> "write", profile_id |-> profile_id, cand |-> cand,
                      dk |-> dedupe_key_of(child_id, cand.type, cand.payload),
                      existing |-> existing]]
       /\ UNCHANGED <<inferences, knowledge, now, ret, fin>>

(* the update or the insert that follows *)
PersistWrite(p) ==
    /\ req[p].pc = "write"
    /\ knowledge' = persist_after_find(knowledge, req[p].existing, req[p].profile_id,
                                       req[p].cand.type, req[p].cand.payload, req[p].dk)
    /\ ret' = [ret EXCEPT ![p] = req[p].cand]
    /\ req' = [req EXCEPT ![p] = Idle]
    /\ UNCHANGED <<inferences, now, fin>>

NextUpsertRace ==
    \/ \E p \in Procs, pr \in ProfileIds, c \in ChildIds, cand \in ActivityCandidates :
          PersistFind(p, pr, c, cand)
    \/ \E p \in Procs : PersistWrite(p)

SpecUpsertRace == InitUpsertRace /\ [][NextUpsertRace]_vars

----------------------------------------------------------------------------
(* The policy as a pure function of the age in weeks: two ages are drawn   *)
(* in the initial state and one step looks both up                         *)

Ages == 0..MaxAge

PolicyOf(child_age_weeks) ==
    [dtu |-> get_dtu(child_age_weeks),
     min_confidence |-> inference_min_confidence(get_dtu(child_age_weeks)),
     ttl_days |-> inference_expiry_days(get_dtu(child_age_weeks))]

InitPolicy ==
    /\ inferences = <<>>
    /\ knowledge = <<>>
    /\ now = 0
    /\ req = NoReq
    /\ ret = NoRet
    /\ fin \in {[a |-> a, b |-> b] : a \in Ages \cup {NoneId}, b \in Ages \cup {NoneId}}

InferencePolicy ==
    /\ ret = NoRet
    /\ ret' = [op |-> "policy", a |-> PolicyOf(fin.a), b |-> PolicyOf(fin.b)]
    /\ UNCHANGED <<inferences, knowledge, now, req, fin>>

NextPolicy == InferencePolicy

SpecPolicy == InitPolicy /\ [][NextPolicy]_vars

----------------------------------------------------------------------------
(* _dedupe_key as a pure function of a candidate whose payload is a dict   *)
(* in insertion order: a sequence of <<field, value>> pairs                *)

(* the field names of the drawn payloads, in the order sort_keys gives *)
FieldOrder == <<"framework", "source">>

FieldValues == {"moms_on_call", "chat"}

FieldsOf(pairs) == {pairs[n][1] : n \in 1..Len(pairs)}

ValueOf(pairs, k) == pairs[CHOOSE n \in 1..Len(pairs) : pairs[n][1] = k][2]

(* the dict the pairs denote *)
AsDict(pairs) == [k \in FieldsOf(pairs) |-> ValueOf(pairs, k)]

(* json.dumps(payload, sort_keys=True, separators=(",", ":")): the pairs   *)
(* in the order of their field names                                       *)
json_dumps_sorted(pairs) ==
    LET RECURSIVE Dump(_)
        Dump(n) ==
            IF n > Len(FieldOrder) THEN <<>>
            ELSE (IF FieldOrder[n] \in FieldsOf(pairs)
                  THEN <<<<FieldOrder[n], ValueOf(pairs, FieldOrder[n])>>>>
                  ELSE <<>>) \o Dump(n + 1)
    IN Dump(1)

(* _dedupe_key on an ordered payload; sha256 is taken as injective *)
dedupe_key(child_id, inference_type, pairs) ==
    dedupe_key_of(child_id, inference_type, json_dumps_sorted(pairs))

OrderedPayloads ==
    {<<>>}
    \cup {<<<<k, v>>>> : k \in Elems(FieldOrder), v \in FieldValues}
    \cup {<<<<ks[1], v1>>, <<ks[2], v2>>>> :
             ks \in {<<FieldOrder[1], FieldOrder[2]>>, <<FieldOrder[2], FieldOrder[1]>>},
             v1 \in FieldValues, v2 \in FieldValues}

(* child_id is Optional[int]: None, 0 and a row id *)
KeyedCandidates ==
    [child_id : {NoneId, 0, 1},
     inference_type : {"care_framework", "feeding_structure"},
     payload : OrderedPayloads]

InitDedupe ==
    /\ inferences = <<>>
    /\ knowledge = <<>>
    /\ now = 0
    /\ req = NoReq
    /\ ret = NoRet
    /\ fin \in [x : KeyedCandidates, y : KeyedCandidates]

DedupeKey ==
    /\ ret = NoRet
    /\ ret' = [op |-> "_dedupe_key",
               x |-> dedupe_key(fin.x.child_id, fin.x.inference_type, fin.x.payload),
               y |-> dedupe_key(fin.y.child_id, fin.y.inference_type, fin.y.payload)]
    /\ UNCHANGED <<inferences, knowledge, now, req, fin>>

NextDedupe == DedupeKey

SpecDedupe == InitDedupe /\ [][NextDedupe]_vars

----------------------------------------------------------------------------
(* The merge helpers as pure functions of two payloads *)

(* list values: tags, one of them the empty string *)
ListValues == {"a", "b", ""}

RECURSIVE ListsUpTo(_)
ListsUpTo(n) ==
    IF n = 0 THEN {<<>>}
    ELSE ListsUpTo(n - 1)
         \cup {Append(l, v) : l \in {m \in ListsUpTo(n - 1) : Len(m) = n - 1},
                              v \in ListValues}

NoSource == "<absent>"

(* the source tag of a payload, or no source key at all *)
SourceTags == {NoSource, "a", "b", "chat"}

WithSource(p, src) == IF src = NoSource THEN p ELSE Put(p, "source", src)

(* the stored payload and the incoming one of a merge *)
ExistingPayload == WithSource([tags |-> fin.base], fin.existing_src)

IncomingPayload == WithSource([tags |-> fin.additions], fin.incoming_src)

InitMerge ==
    /\ inferences = <<>>
    /\ knowledge = <<>>
    /\ now = 0
    /\ req = NoReq
    /\ ret = NoRet
    /\ fin \in [base : ListsUpTo(MaxList), additions : ListsUpTo(MaxList),
                 existing_src : SourceTags, incoming_src : SourceTags]

MergeUnique ==
    /\ ret = NoRet
    /\ ret' = [op |-> "_merge_unique",
               value |-> merge_unique(fin.base, fin.additions)]
    /\ UNCHANGED <<inferences, knowledge, now, req, fin>>

MergeSources ==
    /\ ret = NoRet
    /\ ret' = [op |-> "_merge_sources",
               value |-> merge_sources(ExistingPayload, IncomingPayload)]
    /\ UNCHANGED <<inferences, knowledge, now, req, fin>>

MergeActivityPreferences ==
    /\ ret = NoRet
    /\ ret' = [op |-> "_merge_activity_preferences",
               value |-> merge_activity_preferences(ExistingPayload, IncomingPayload)]
    /\ UNCHANGED <<inferences, knowledge, now, req, fin>>

NextMerge ==
    \/ MergeUnique
    \/ MergeSources
    \/ MergeActivityPreferences

SpecMerge == InitMerge /\ [][NextMerge]_vars

----------------------------------------------------------------------------
(* The filter as a pure function: its inputs are drawn in the initial      *)
(* state and one step applies it                                           *)

LpChoices == {NoTime, Naive(1), Aware(1)}
FilterNowChoices == {2}
CooldownChoices == {1, 2}

MetaChoices ==
    {NoMeta, Meta("rejected", 90, NoTime, FALSE), Meta("pending", 50, NoTime, TRUE)}
    \cup {Meta("pending", 90, lp, FALSE) : lp \in LpChoices}
    \cup {Meta("pending", 50, lp, FALSE) : lp \in {NoTime, Aware(1)}}
    \cup {Meta("pending", ConfidenceThreshold, NoTime, FALSE)}

(* one pending-list entry and the lookup entry of its _dedupe_key *)
SlotChoices ==
    {[status |-> "active", lp |-> NoTime, keyed |-> FALSE, meta |-> NoMeta]}
    \cup {[status |-> "pending", lp |-> lp, keyed |-> FALSE, meta |-> NoMeta] :
             lp \in LpChoices}
    \cup {[status |-> "pending", lp |-> lp, keyed |-> TRUE, meta |-> m] :
             lp \in LpChoices, m \in MetaChoices}

SlotKey(i) == <<"dedupe", i>>

SlotItem(slots, i) ==
    [id |-> i,
     status |-> slots[i].status,
     payload |-> IF slots[i].keyed THEN Put(EmptyPayload, "_dedupe_key", SlotKey(i))
                 ELSE EmptyPayload,
     last_prompted_at |-> slots[i].lp]

MakeFilterInput(slots, t, cooldown_hours, max_prompts) ==
    [pending |-> [i \in 1..Len(slots) |-> SlotItem(slots, i)],
     lookup |-> [dk \in {SlotKey(i) : i \in {j \in 1..Len(slots) :
                                                slots[j].meta.present}}
                   |-> slots[dk[2]].meta],
     now |-> t,
     cooldown_hours |-> cooldown_hours,
     max_prompts |-> max_prompts,
     confidence_threshold |-> ConfidenceThreshold]

FilterInputs ==
    {MakeFilterInput(slots, t, cd, mp) :
        slots \in UNION {[1..n -> SlotChoices] : n \in 0..MaxPending},
        t \in FilterNowChoices, cd \in CooldownChoices, mp \in 0..MaxPrompts}

InitFilter ==
    /\ inferences = <<>>
    /\ knowledge = <<>>
    /\ now = 0
    /\ req = NoReq
    /\ ret = NoRet
    /\ fin \in FilterInputs

FilterPendingForPrompt ==
    /\ ret = NoRet
    /\ LET r == filter_pending_for_prompt(fin.pending, fin.cooldown_hours,
                                          fin.max_prompts, fin.lookup,
                                          fin.confidence_threshold, fin.now)
       IN ret' = [op |-> "filter_pending_for_prompt", raised |-> r.raised,
                  items |-> r.items]
    /\ UNCHANGED <<inferences, knowledge, now, req, fin>>

NextFilter == FilterPendingForPrompt

SpecFilter == InitFilter /\ [][NextFilter]_vars

----------------------------------------------------------------------------
(* Properties of the Inference store *)

InferenceIds == 1..Len(inferences)

CreateInputs ==
    {CreateInferencePayload(c, cand, e) :
        c \in ChildIds, cand \in Candidates, e \in ExpiryChoices}

KeyOf(data) == dedupe_key_of(data.child_id, data.inference_type, data.payload)

(* C1: the store holds at most one row per dedupe_key; two create_inference *)
(* calls with equal (child_id, inference_type, payload) return the same id  *)
(* and the second call inserts no row.                                      *)
C1_OneRowPerDedupeKey ==
    /\ \A i, j \in InferenceIds :
          inferences[i].dedupe_key = inferences[j].dedupe_key => i = j
    /\ \A d1, d2 \in CreateInputs :
          KeyOf(d1) = KeyOf(d2) =>
             LET r1 == create_inference(inferences, d1, now)
                 r2 == create_inference(r1.infs, d2, now)
             IN r2.id = r1.id /\ r2.infs = r1.infs

(* two rows are stored, and a call with the candidate of one of them        *)
(* returns that row and inserts nothing                                     *)
C1_Witness ==
    /\ Len(inferences) = 2
    /\ \E d \in CreateInputs :
          create_inference(inferences, d, now) = [infs |-> inferences, id |-> 2]

RowsWithKey(infs, dk) == {i \in 1..Len(infs) : infs[i].dedupe_key = dk}

IsDetectionStep ==
    \/ \E c \in ChildIds, cand \in Candidates, e \in ExpiryChoices :
          CreateInference(c, cand, e)
    \/ \E c \in ChildIds, p \in ProfileIds, m \in Messages : Detect(c, p, m)

OtherInferencesUnchanged(id) ==
    /\ Len(inferences') = Len(inferences)
    /\ \A j \in InferenceIds : j # id => inferences'[j] = inferences[j]

----------------------------------------------------------------------------
(* Properties of the KnowledgeItem store and of the resolve endpoint *)

ActiveFor(know, profile_id, key) ==
    {i \in 1..Len(know) : /\ know[i].profile_id = profile_id
                          /\ know[i].key = key
                          /\ know[i].status = "active"}

(* C4: after set_explicit_knowledge(profile, K, payload) exactly one item   *)
(* for (profile, K) is active, it is explicit and carries the payload, and  *)
(* every inferred item for K that was active before the call is rejected.   *)
C4_ExplicitPrecedence ==
    [][\A p \in ProfileIds, k \in Keys, pl \in ExplicitPayloads :
          SetExplicit(p, k, pl) =>
             /\ Cardinality(ActiveFor(knowledge', p, k)) = 1
             /\ \A i \in ActiveFor(knowledge', p, k) :
                   knowledge'[i].type = "explicit" /\ knowledge'[i].payload = pl
             /\ \A j \in ActiveFor(knowledge, p, k) :
                   knowledge[j].type = "inferred" =>
                      \E i \in 1..Len(knowledge') :
                         /\ knowledge'[i].id = knowledge[j].id
                         /\ knowledge'[i].status = "rejected"]_vars

AllCandidatesRejected(child_id, msg) ==
    \A n \in 1..Len(msg) :
       LET existing == get_inference_by_dedupe_key(
                           inferences, KeyOf(CreateInferencePayload(child_id, msg[n], NoneId)))
       IN existing # NoneId /\ inferences[existing].status = "rejected"

(* C8: detecting a candidate whose Inference exists with status rejected is *)
(* a silent no-op: no Inference row and no KnowledgeItem row is created or  *)
(* changed.                                                                 *)
C8_RejectedCandidateIsNoOp ==
    [][\A c \in ChildIds, p \in ProfileIds, m \in Messages :
          (Detect(c, p, m) /\ AllCandidatesRejected(c, m)) =>
             (inferences' = inferences /\ knowledge' = knowledge)]_vars

(* C9: resolve_inference with action reject sets the Inference to rejected  *)
(* and leaves every KnowledgeItem unchanged.                                *)
C9_RejectLeavesKnowledge ==
    /\ [](\A id \in InferenceIds :
            LET r == resolve_inference_reject(inferences, knowledge, id)
            IN r.know = knowledge /\ r.infs[id].status = "rejected")
    /\ [][\A id \in 1..MaxInferences :
            ResolveReject(id) =>
               (knowledge' = knowledge /\ inferences'[id].status = "rejected")]_vars

(* an Inference is rejected while a KnowledgeItem of its fact type is still *)
(* pending or active                                                        *)
C9_Witness ==
    \E i \in InferenceIds, k \in 1..Len(knowledge) :
       /\ inferences[i].status = "rejected"
       /\ knowledge[k].key = inferences[i].inference_type
       /\ knowledge[k].status # "rejected"
       /\ resolve_inference_reject(inferences, knowledge, i).know = knowledge

ConfirmedItemFor(know, id, action) ==
    \E i \in 1..Len(know) :
       /\ Has(know[i].payload, "source_inference_id")
       /\ know[i].payload["source_inference_id"] = id
       /\ know[i].confidence = confirm_confidence(action)
       /\ know[i].qualifier = confirm_qualifier(action)

(* C10: a confirm creates the KnowledgeItem with the confidence qualifier   *)
(* and sets the Inference to confirmed as one unit: when the call is over,  *)
(* either both effects hold or neither does.                                *)
C10_ConfirmIsAtomic ==
    [][(ResolveConfirmUpdate \/ ResolveConfirmUpdateFails) =>
          (ConfirmedItemFor(knowledge', req.id, req.action)
              <=> inferences'[req.id].status = "confirmed")]_vars

----------------------------------------------------------------------------
(* Properties of expiry *)

IsExpired(row, t) == row.expires_at # NoneId /\ row.expires_at < t

InSeq(x, s) == \E n \in 1..Len(s) : s[n] = x

(* C7: an Inference whose expires_at is earlier than the current time is    *)
(* omitted by list_inferences(status='pending'), get_inference returns it   *)
(* with its stored fields, and the passing of time mutates no row.          *)
C7_ExpiryIsAView ==
    /\ [](\A i \in InferenceIds :
            IsExpired(inferences[i], now) =>
               /\ ~InSeq(i, list_inferences(inferences, NoneId, "pending",
                                            InferenceListLimit))
               /\ get_inference(inferences, i) =
                     [ok |-> TRUE, id |-> i, row |-> inferences[i]])
    /\ [][Tick => inferences' = inferences]_vars

----------------------------------------------------------------------------
(* Properties of the prompt filter *)

Called == ret # NoRet

Recent(lp) == lp # NoTime /\ fin.now - lp.t < fin.cooldown_hours

MetaOf(i) == LookupGet(fin.lookup, ItemDedupeKey(fin.pending[i]))

(* the last_prompted_at of the item or of its looked-up Inference lies      *)
(* inside the cooldown window                                               *)
InCooldown(i) ==
    \/ Recent(fin.pending[i].last_prompted_at)
    \/ MetaOf(i).present /\ MetaOf(i).status # "rejected"
                         /\ Recent(MetaOf(i).last_prompted_at)

(* eligible but for the cooldown: pending, not rejected, confident enough   *)
OtherwiseEligible(i) ==
    /\ fin.pending[i].status = "pending"
    /\ MetaOf(i).present =>
          /\ MetaOf(i).status # "rejected"
          /\ (MetaOf(i).confidence >= fin.confidence_threshold
                 \/ MetaOf(i).related_to_message)

EligibleIndexes ==
    {i \in 1..Len(fin.pending) : OtherwiseEligible(i) /\ ~InCooldown(i)}

RECURSIVE EligibleFrom(_)
EligibleFrom(i) ==
    IF i > Len(fin.pending) THEN <<>>
    ELSE (IF i \in EligibleIndexes THEN <<fin.pending[i]>> ELSE <<>>)
            \o EligibleFrom(i + 1)

(* the eligible items in the iteration order of the input *)
EligibleItems == EligibleFrom(1)

EligibleBefore(i) == Cardinality({j \in EligibleIndexes : j < i})

(* C5: the filter excludes an otherwise-eligible pending item whose         *)
(* last_prompted_at (its own or its Inference's) is less than               *)
(* cooldown_hours old, and an otherwise-eligible item whose                 *)
(* last_prompted_at is null or at least cooldown_hours old is eligible      *)
(* again (it is returned unless the cap stopped the loop before it).        *)
C5_CooldownEnforced ==
    Called =>
       /\ ~ret.raised
       /\ \A i \in 1..Len(fin.pending) :
             /\ (OtherwiseEligible(i) /\ InCooldown(i))
                   => ~InSeq(fin.pending[i], ret.items)
             /\ (OtherwiseEligible(i) /\ ~InCooldown(i)
                   /\ (fin.max_prompts = 0 \/ EligibleBefore(i) < fin.max_prompts))
                   => InSeq(fin.pending[i], ret.items)

(* C6 as stated: for every max_prompts >= 0 a returned list has at most     *)
(* max_prompts items, the first eligible ones in input order.               *)
C6_CapForEveryMaxPrompts ==
    (Called /\ ~ret.raised) =>
       /\ Len(ret.items) <= fin.max_prompts
       /\ ret.items = Take(EligibleItems, fin.max_prompts)

(* C6 amended: for every max_prompts >= 1 a returned list has at most       *)
(* max_prompts items and is the first max_prompts eligible items in input   *)
(* order; max_prompts = 0 switches the cap off and every eligible item is   *)
(* returned, in input order.                                                *)
C6_CapWhenPositive ==
    (Called /\ ~ret.raised) =>
       IF fin.max_prompts >= 1
       THEN /\ Len(ret.items) <= fin.max_prompts
            /\ ret.items = Take(EligibleItems, fin.max_prompts)
       ELSE ret.items = EligibleItems

(* a call with max_prompts = 1 on a list with two eligible items returns    *)
(* the first of them only                                                   *)
C6_Witness ==
    /\ Called /\ ~ret.raised
    /\ Len(EligibleItems) = 2
    /\ fin.max_prompts = 1
    /\ ret.items = <<EligibleItems[1]>>

----------------------------------------------------------------------------
(* Properties of the inferred upsert *)

UpsertKey(cand) == KeyOf(CreateInferencePayload(1, cand, NoneId))

Upserted(p, cand) ==
    persist_pending_knowledge(knowledge, p, cand.type, cand.payload, UpsertKey(cand))

(* merge_K: the registered handler of K, and plain replacement without one *)
MergeK(key, old, new) ==
    IF key \in MERGE_HANDLERS THEN merge_fn(key, old, new) ELSE new

RowOf(know, id) == know[PosOf(know, id)]

OldRowsUnchanged(after) ==
    \A i \in 1..Len(knowledge) :
       PosOf(after, knowledge[i].id) # 0 /\ RowOf(after, knowledge[i].id) = knowledge[i]

(* C11: the inferred upsert for key K merges into the latest item when it   *)
(* exists and is not rejected (payload merge_K(old, new), status unchanged, *)
(* no row added), and inserts exactly one pending inferred item otherwise.  *)
C11_InferredUpsert ==
    \A p \in ProfileIds, cand \in DetectionCandidates :
       LET pos == find_knowledge_item(knowledge, p, cand.type)
           after == Upserted(p, cand)
       IN IF pos # 0 /\ knowledge[pos].status # "rejected"
          THEN LET row == RowOf(after, knowledge[pos].id)
               IN /\ Len(after) = Len(knowledge)
                  /\ row.status = knowledge[pos].status
                  /\ \/ row.payload = MergeK(cand.type, knowledge[pos].payload, cand.payload)
                     \/ Without(row.payload, "_dedupe_key")
                           = MergeK(cand.type, knowledge[pos].payload, cand.payload)
          ELSE /\ Len(after) = Len(knowledge) + 1
               /\ after[Len(after)].type = "inferred"
               /\ after[Len(after)].status = "pending"
               /\ OldRowsUnchanged(after)

(* C12: without a registered merge function, an upsert onto a non-rejected  *)
(* item replaces the item's payload by the new payload.                     *)
C12_DefaultReplace ==
    \A p \in ProfileIds, cand \in DetectionCandidates :
       LET pos == find_knowledge_item(knowledge, p, cand.type)
       IN (cand.type \notin MERGE_HANDLERS /\ pos # 0
              /\ knowledge[pos].status # "rejected")
             => Without(RowOf(Upserted(p, cand), knowledge[pos].id).payload, "_dedupe_key")
                   = cand.payload

----------------------------------------------------------------------------
(* Properties of the confidence gate *)

LowConfidence(i) ==
    /\ MetaOf(i).present
    /\ MetaOf(i).confidence < fin.confidence_threshold
    /\ ~MetaOf(i).related_to_message

(* C13: in the list the filter returns, a pending item whose looked-up      *)
(* Inference has a confidence strictly below the threshold and is not       *)
(* flagged as related is skipped; an item at or above the threshold, or     *)
(* flagged as related, or without a lookup entry, is not skipped for        *)
(* confidence: it is returned when it is pending, not rejected, outside     *)
(* the cooldown and within the cap.                                         *)
C13_ConfidenceGate ==
    (Called /\ ~ret.raised) =>
       \A i \in 1..Len(fin.pending) :
          /\ (fin.pending[i].status = "pending" /\ LowConfidence(i))
                => ~InSeq(fin.pending[i], ret.items)
          /\ (/\ fin.pending[i].status = "pending"
              /\ ~LowConfidence(i)
              /\ ~(MetaOf(i).present /\ MetaOf(i).status = "rejected")
              /\ ~InCooldown(i)
              /\ (fin.max_prompts = 0 \/ EligibleBefore(i) < fin.max_prompts))
                => InSeq(fin.pending[i], ret.items)

(* a returned list that leaves out a low-confidence item and holds an item  *)
(* whose Inference is exactly at the threshold                              *)
C13_Witness ==
    /\ Called /\ ~ret.raised
    /\ \E i, j \in 1..Len(fin.pending) :
          /\ fin.pending[i].status = "pending" /\ LowConfidence(i)
          /\ ~InCooldown(i)
          /\ ~InSeq(fin.pending[i], ret.items)
          /\ MetaOf(j).present
          /\ MetaOf(j).confidence = fin.confidence_threshold
          /\ ~MetaOf(j).related_to_message
          /\ InSeq(fin.pending[j], ret.items)

----------------------------------------------------------------------------
(* Properties of mark_inferences_prompted *)

Marked(row, t) == [row EXCEPT !.last_prompted_at = t]

(* C15: mark_inferences_prompted(keys) sets last_prompted_at on exactly the *)
(* rows whose dedupe_key is in keys and changes nothing else of any row;    *)
(* keys that match no row, and the empty list, change nothing.              *)
C15_MarkPromptedFrame ==
    /\ [](\A keys \in PromptKeyLists :
            LET after == mark_inferences_prompted(inferences, keys, now)
            IN /\ Len(after) = Len(inferences)
               /\ \A i \in InferenceIds :
                     after[i] = IF inferences[i].dedupe_key \in Elems(keys)
                                THEN Marked(inferences[i], now)
                                ELSE inferences[i])
    /\ [][\A keys \in PromptKeyLists :
            MarkInferencesPrompted(keys) =>
               /\ knowledge' = knowledge
               /\ Len(inferences') = Len(inferences)
               /\ \A i \in InferenceIds :
                     /\ inferences'[i].status = inferences[i].status
                     /\ inferences'[i].payload = inferences[i].payload
                     /\ inferences[i].dedupe_key \notin Elems(keys)
                           => inferences'[i] = inferences[i]]_vars

(* of two stored rows one carries a prompt time and the other none, and a   *)
(* call with an unknown key leaves both as they are                         *)
C15_Witness ==
    /\ Len(inferences) = 2
    /\ \E i, j \in InferenceIds :
          /\ inferences[i].last_prompted_at # NoneId
          /\ inferences[j].last_prompted_at = NoneId
    /\ mark_inferences_prompted(inferences, <<UnknownKey>>, now) = inferences

----------------------------------------------------------------------------
(* Properties of prompting after a rejection *)

(* the lookup a caller builds from the Inference store: one entry per       *)
(* dedupe_key, with the row's status, confidence and prompt time as         *)
(* _row_to_inference reads them, and the caller's relevance flag            *)
InferenceLookup(infs, related) ==
    [dk \in {infs[i].dedupe_key : i \in 1..Len(infs)} |->
        LET row == infs[get_inference_by_dedupe_key(infs, dk)]
        IN Meta(row.status, row.confidence,
                IF row.last_prompted_at = NoneId THEN NoTime
                ELSE Aware(row.last_prompted_at),
                related)]

(* a KnowledgeItem as _row_to_knowledge_item reads it *)
ItemRead(row) ==
    [row EXCEPT !.last_prompted_at =
        IF row.last_prompted_at = NoneId THEN NoTime ELSE Naive(row.last_prompted_at)]

PendingItems(profile_id) ==
    LET rows == list_knowledge_items(knowledge, profile_id, "pending", ListLimit)
    IN [n \in 1..Len(rows) |-> ItemRead(rows[n])]

(* what a prompt selection over the stores returns *)
PromptSelection(profile_id, max_prompts, related) ==
    filter_pending_for_prompt(PendingItems(profile_id), 1, max_prompts,
                              InferenceLookup(inferences, related),
                              ConfidenceThreshold, now)

(* The prompting protocol: a selection over the stores at the current      *)
(* time, after which the caller marks every selected item on both stores   *)

PromptCooldowns == {1, 2}

SelectFromStores(profile_id, cooldown_hours, max_prompts, related) ==
    filter_pending_for_prompt(PendingItems(profile_id), cooldown_hours, max_prompts,
                              InferenceLookup(inferences, related),
                              ConfidenceThreshold, now)

IdsOf(items) == [n \in 1..Len(items) |-> items[n].id]

RECURSIVE DedupeKeysOf(_)
DedupeKeysOf(items) ==
    IF items = <<>> THEN <<>>
    ELSE (IF ItemDedupeKey(Head(items)) # NoKey THEN <<ItemDedupeKey(Head(items))>>
          ELSE <<>>) \o DedupeKeysOf(Tail(items))

PromptRound(profile_id, cooldown_hours, max_prompts, related) ==
    LET r == SelectFromStores(profile_id, cooldown_hours, max_prompts, related)
    IN /\ ret' = [op |-> "prompt_round", raised |-> r.raised, at |-> now,
                  cooldown_hours |-> cooldown_hours, selected |-> IdsOf(r.items)]
       /\ knowledge' = mark_knowledge_prompted(knowledge, IdsOf(r.items), now)
       /\ inferences' = mark_inferences_prompted(inferences, DedupeKeysOf(r.items), now)
       /\ UNCHANGED <<now, req, fin>>

NextPrompting ==
    \/ \E c \in ChildIds, p \in ProfileIds, m \in Messages : Detect(c, p, m)
    \/ \E p \in ProfileIds, cd \in PromptCooldowns, mp \in 0..MaxPrompts, related \in BOOLEAN :
          PromptRound(p, cd, mp, related)
    \/ Tick

SpecPrompting == Init /\ [][NextPrompting]_vars

(* the Inferences of one fact type; when there is exactly one, every        *)
(* KnowledgeItem of that key was created by the detection of that Inference *)
InferencesOfType(type) == {i \in InferenceIds : inferences[i].inference_type = type}

(* C14: once an Inference is rejected, no KnowledgeItem that originated     *)
(* from it is returned by filter_pending_for_prompt when the lookup is      *)
(* built from the Inference store, whatever detections and merges follow.   *)
C14_RejectedNeverPrompted ==
    \A p \in ProfileIds, mp \in 0..MaxPrompts, related \in BOOLEAN :
       LET r == PromptSelection(p, mp, related)
       IN \A n \in 1..Len(r.items), i \in InferenceIds :
             (/\ InferencesOfType(r.items[n].key) = {i}
              /\ inferences[i].status = "rejected") => FALSE

----------------------------------------------------------------------------
(* Properties of the Confidence & Expiry Policy *)

(* C16: every Inference row that detection inserts is pending and has a     *)
(* non-null expires_at: its creation time plus the policy's TTL for the     *)
(* subject's age bracket.                                                   *)
C16_DetectedRowsExpire ==
    [][\A c \in ChildIds, p \in ProfileIds, m \in DetectionMessages :
          Detect(c, p, m) =>
             \A i \in (Len(inferences) + 1)..Len(inferences') :
                /\ inferences'[i].status = "pending"
                /\ inferences'[i].expires_at
                      \in {now + inference_expiry_days(get_dtu(a)) : a \in Ages}]_vars

(* the table of the claim *)
PolicyTable(age) ==
    IF age <= 4 THEN [min_confidence |-> 45, ttl_days |-> 14]
    ELSE IF age <= 26 THEN [min_confidence |-> 50, ttl_days |-> 30]
    ELSE [min_confidence |-> 55, ttl_days |-> 90]

AgreesWithTable(policy, age) ==
    /\ policy.min_confidence = PolicyTable(age).min_confidence
    /\ policy.ttl_days = PolicyTable(age).ttl_days

(* C17: the policy depends on the age bracket only (newborn up to 4 weeks:  *)
(* 0.45 and 14 days; infant up to 26 weeks: 0.50 and 30 days; older: 0.55   *)
(* and 90 days) and is monotone: for ages a <= b, min_confidence(a) <=      *)
(* min_confidence(b) and ttl_days(a) <= ttl_days(b).                        *)
C17_PolicyMonotone ==
    Called =>
       /\ fin.a # NoneId => AgreesWithTable(ret.a, fin.a)
       /\ fin.b # NoneId => AgreesWithTable(ret.b, fin.b)
       /\ ret.a.dtu = ret.b.dtu => ret.a = ret.b
       /\ (fin.a # NoneId /\ fin.b # NoneId /\ fin.a <= fin.b) =>
             /\ ret.a.min_confidence <= ret.b.min_confidence
             /\ ret.a.ttl_days <= ret.b.ttl_days

(* the two bracket edges, 4 and 27 weeks, looked up in one step *)
C17_Witness ==
    /\ Called
    /\ fin.a = 4 /\ fin.b = 27
    /\ ret.a.dtu = "newborn" /\ ret.b.dtu = "older"
    /\ ret.a.ttl_days < ret.b.ttl_days

----------------------------------------------------------------------------
(* Properties of the dedupe key *)

SameCandidate(x, y) ==
    /\ x.child_id = y.child_id
    /\ x.inference_type = y.inference_type
    /\ AsDict(x.payload) = AsDict(y.payload)

(* C18: two payloads with equal keys and values get the same key whatever   *)
(* their insertion order, and two candidates that differ in child_id, in    *)
(* inference_type or in canonical payload never share a key.                *)
C18_KeyIdentifiesCandidate ==
    Called => (SameCandidate(fin.x, fin.y) <=> ret.x = ret.y)

----------------------------------------------------------------------------
(* Properties of the merge helpers *)

(* the values of additions that are not in seen, once each, in first-seen  *)
(* order                                                                    *)
RECURSIVE NewValues(_, _)
NewValues(seen, additions) ==
    IF additions = <<>> THEN <<>>
    ELSE LET value == Head(additions)
         IN IF value \notin seen
            THEN <<value>> \o NewValues(seen \cup {value}, Tail(additions))
            ELSE NewValues(seen, Tail(additions))

(* the list merge the operation under observation has returned *)
MergedList ==
    IF ret.op = "_merge_unique" THEN ret.value ELSE ret.value["tags"]

ListMerged == Called /\ ret.op \in {"_merge_unique", "_merge_activity_preferences"}

(* C19 as stated: the result is base followed by each value of additions   *)
(* that is not already present, once, in first-seen order.                  *)
C19_AppendsEveryNewValue ==
    ListMerged => MergedList = fin.base \o NewValues(Elems(fin.base), fin.additions)

(* C19 amended: the result is base in its order followed by each non-empty  *)
(* value of additions that is not already present, once, in first-seen      *)
(* order, and merging the same additions a second time changes nothing.     *)
C19_AppendsNewNonEmptyValues ==
    ListMerged =>
        /\ MergedList = fin.base \o NewValues(Elems(fin.base) \cup {""}, fin.additions)
        /\ merge_unique(MergedList, fin.additions) = MergedList

(* existing [b] merged with [a, b]: one value is new and one is already    *)
(* present, and only the new one is appended, after the base               *)
C19_Witness ==
    /\ ListMerged
    /\ ret.op = "_merge_unique"
    /\ fin.base = <<"b">>
    /\ fin.additions = <<"a", "b">>
    /\ ret.value = <<"b", "a">>

SourceMerged == Called /\ ret.op \in {"_merge_sources", "_merge_activity_preferences"}

(* the source tag the operation under observation has returned *)
MergedSource ==
    IF ret.op = "_merge_sources" THEN ret.value ELSE ret.value["source"]

(* C20: when both payloads carry a source tag and the tags differ the       *)
(* merged source joins the two tags (old 'a', new 'b' give 'a+b'); when     *)
(* only one carries a tag, or both tags are equal, that tag is the result.  *)
C20_SourceReconciled ==
    SourceMerged =>
        LET old == fin.existing_src
            new == fin.incoming_src
        IN /\ (old # NoSource /\ new # NoSource /\ old # new)
                  => MergedSource = old \o "+" \o new
           /\ (old # NoSource /\ new = NoSource) => MergedSource = old
           /\ (old = NoSource /\ new # NoSource) => MergedSource = new
           /\ (old # NoSource /\ new = old) => MergedSource = old

----------------------------------------------------------------------------
(* Properties of repeated detection *)

(* every candidate of the message already has its Inference row *)
AlreadyRegistered(child_id, msg) ==
    \A n \in 1..Len(msg) :
       get_inference_by_dedupe_key(
           inferences, dedupe_key_of(child_id, msg[n].type, msg[n].payload)) # NoneId

(* C21: detect_knowledge_inferences called again with a message whose       *)
(* Inferences are already registered for the child returns an empty list.   *)
C21_RepeatedDetectionReturnsNothing ==
    \A c \in ChildIds, p \in ProfileIds, m \in DetectionMessages :
       AlreadyRegistered(c, m)
          => detect_knowledge_inferences(inferences, knowledge, m, c, p, now).created = <<>>

----------------------------------------------------------------------------
(* Properties of overlapping create_inference calls *)

(* the row a later create_inference for the same candidate returns *)
LaterRead(id) ==
    LET row == inferences[id]
        r == create_inference(
                 inferences,
                 [child_id |-> row.child_id, inference_type |-> row.inference_type,
                  payload |-> row.payload, confidence |-> row.confidence,
                  status |-> "pending", expires_at |-> NoneId],
                 now)
    IN r.infs[r.id]

(* C22: after overlapping create_inference calls for equal candidates, a    *)
(* rejection applied to the record either caller received is observed by    *)
(* every later read of that candidate's dedupe_key.                         *)
C22_RaceConverges ==
    Quiescent =>
       \A p \in Procs :
          (ret[p] # NoneId /\ inferences[ret[p]].status = "rejected")
             => LaterRead(ret[p]).status = "rejected"

----------------------------------------------------------------------------
(* Properties of the review endpoints *)

(* C23: rejecting an item through the reject endpoint sets its status to    *)
(* rejected and increases its dismiss_count by exactly one; confirming an   *)
(* item sets its status to active and resets its dismiss_count to 0.        *)
C23_ReviewKeepsDismissCounter ==
    \A n \in 1..Len(knowledge) :
       LET item == knowledge[n]
           rejected == RowOf(reject_knowledge(knowledge, item.id), item.id)
           confirmed == RowOf(confirm_knowledge(knowledge, item.id), item.id)
       IN /\ rejected.status = "rejected"
          /\ DismissCount(rejected.payload) = DismissCount(item.payload) + 1
          /\ confirmed.status = "active"
          /\ DismissCount(confirmed.payload) = 0

----------------------------------------------------------------------------
(* Properties of the memory command *)

MemoryCalled == ret # NoRet /\ ret.op = "handle_memory_command"

ManualMemoryItems(know, profile_id) ==
    {n \in 1..Len(know) : know[n].profile_id = profile_id /\ know[n].key = "manual_memory"}

(* exactly one manual_memory item, explicit and active, holding the text *)
SavedOnce(know, profile_id, text) ==
    /\ Cardinality(ManualMemoryItems(know, profile_id)) = 1
    /\ \A n \in ManualMemoryItems(know, profile_id) :
          /\ know[n].type = "explicit"
          /\ know[n].status = "active"
          /\ know[n].payload = [text |-> text]

(* C24 as stated: blocked by pending knowledge (target 'user') it writes    *)
(* nothing and asks to confirm; with no text it writes nothing and asks     *)
(* what to save; otherwise it creates or updates exactly one explicit,      *)
(* active manual_memory item holding the text.                              *)
C24_MemoryCommandAsStated ==
    MemoryCalled =>
       LET blocked == ret.target = "user" /\ ret.pending_knowledge # <<>>
           no_text == ret.text = ""
       IN /\ blocked => (knowledge = ret.before /\ ret.reply = "confirm_pending")
          /\ no_text => (knowledge = ret.before /\ ret.reply = "clarify")
          /\ (~blocked /\ ~no_text) => SavedOnce(knowledge, ret.profile_id, ret.text)

(* C24 amended: a target other than 'assistant' or 'user' is not handled;   *)
(* with no text to save nothing is written and the reply asks what to save, *)
(* pending or not; with text, target 'user' and pending knowledge nothing   *)
(* is written and the reply asks to confirm; with text and no profile       *)
(* nothing is written; otherwise exactly one explicit, active manual_memory *)
(* item holds the text.                                                     *)
C24_MemoryCommand ==
    MemoryCalled =>
       LET handled == ret.target \in {"assistant", "user"}
           blocked == ret.target = "user" /\ ret.pending_knowledge # <<>>
           no_text == ret.text = ""
           saves == handled /\ ~no_text /\ ~blocked /\ ret.profile_id # NoneId
       IN /\ ~handled => (knowledge = ret.before /\ ret.reply = "none")
          /\ (handled /\ no_text) => (knowledge = ret.before /\ ret.reply = "clarify")
          /\ (handled /\ ~no_text /\ blocked)
                => (knowledge = ret.before /\ ret.reply = "confirm_pending")
          /\ (handled /\ ~no_text /\ ~blocked /\ ret.profile_id = NoneId)
                => (knowledge = ret.before /\ ret.reply = "finish_profile")
          /\ saves => (ret.reply = "saved" /\ SavedOnce(knowledge, ret.profile_id, ret.text))

(* a second save replaces the text of the one manual_memory item *)
C24_Witness ==
    /\ MemoryCalled
    /\ ret.reply = "saved"
    /\ ManualMemoryItems(ret.before, ret.profile_id) # {}
    /\ \A n \in ManualMemoryItems(ret.before, ret.profile_id) :
          ret.before[n].payload # [text |-> ret.text]
    /\ SavedOnce(knowledge, ret.profile_id, ret.text)

----------------------------------------------------------------------------
(* Properties of explicit and inferred items of one key *)

(* C25: once an explicit item for key K exists, a later inferred upsert for *)
(* K changes neither its payload nor its type nor its status.               *)
C25_ExplicitNeverOverridden ==
    \A n \in 1..Len(knowledge) :
       knowledge[n].type = "explicit" =>
          \A c \in ChildIds, cand \in Candidates :
             cand.type = knowledge[n].key =>
                LET after == persist_pending_knowledge(
                                 knowledge, knowledge[n].profile_id, cand.type, cand.payload,
                                 dedupe_key_of(c, cand.type, cand.payload))
                    row == RowOf(after, knowledge[n].id)
                IN /\ row.payload = knowledge[n].payload
                   /\ row.type = knowledge[n].type
                   /\ row.status = knowledge[n].status

(* C26: each (profile, key) has at most one active item, and while an       *)
(* explicit item of the key is active no inferred item of the key is.       *)
C26_OneActivePerKey ==
    \A p \in ProfileIds, k \in {knowledge[n].key : n \in 1..Len(knowledge)} :
       /\ Cardinality(ActiveFor(knowledge, p, k)) <= 1
       /\ (\E i \in ActiveFor(knowledge, p, k) : knowledge[i].type = "explicit")
             => ~(\E j \in ActiveFor(knowledge, p, k) : knowledge[j].type = "inferred")

----------------------------------------------------------------------------
(* Properties of the back-reference of an item *)

(* C27: a merge performed by an inferred upsert keeps the item's            *)
(* _dedupe_key, for every registered merge handler.                         *)
C27_MergeKeepsBackReference ==
    \A p \in ProfileIds, cand \in DetectionCandidates :
       LET pos == find_knowledge_item(knowledge, p, cand.type)
       IN (/\ cand.type \in MERGE_HANDLERS
           /\ pos # 0
           /\ knowledge[pos].status # "rejected"
           /\ Has(knowledge[pos].payload, "_dedupe_key"))
             => LET row == RowOf(Upserted(p, cand), knowledge[pos].id)
                IN /\ Has(row.payload, "_dedupe_key")
                   /\ row.payload["_dedupe_key"] = knowledge[pos].payload["_dedupe_key"]

----------------------------------------------------------------------------
(* Properties of the prompting protocol *)

(* the pending items a round has marked *)
PromptedItems(profile_id) ==
    {n \in 1..Len(knowledge) : /\ knowledge[n].profile_id = profile_id
                               /\ knowledge[n].status = "pending"
                               /\ knowledge[n].last_prompted_at # NoneId}

SelectedIds(r) == {r.items[n].id : n \in 1..Len(r.items)}

(* C28: when the caller marks every selected item on both stores, an item   *)
(* is not selected again less than cooldown_hours after its prompt, and is  *)
(* selectable again once cooldown_hours have elapsed.                       *)
C28_CooldownEndToEnd ==
    \A p \in ProfileIds, cd \in PromptCooldowns : \A n \in PromptedItems(p) :
       LET r == SelectFromStores(p, cd, 0, TRUE)
       IN IF now - knowledge[n].last_prompted_at < cd
          THEN r.raised \/ knowledge[n].id \notin SelectedIds(r)
          ELSE ~r.raised /\ knowledge[n].id \in SelectedIds(r)

----------------------------------------------------------------------------
(* Properties of overlapping inferred upserts *)

ItemsOfKey(profile_id, key) ==
    {n \in 1..Len(knowledge) : knowledge[n].profile_id = profile_id /\ knowledge[n].key = key}

Contains(payload, cand, field) ==
    Elems(ListOf(cand.payload, field)) \subseteq Elems(ListOf(payload, field))

(* C29: after overlapping inferred upserts the item's payload contains the  *)
(* list values contributed by every call, and calls that all found no item  *)
(* have created only one pending item.                                      *)
C29_NoLostUpdate ==
    Quiescent =>
       \A pr \in ProfileIds, p \in Procs :
          ret[p] # NoCandidate =>
             LET pos == find_knowledge_item(knowledge, pr, ret[p].type)
             IN /\ Cardinality(ItemsOfKey(pr, ret[p].type)) = 1
                /\ Contains(knowledge[pos].payload, ret[p], "favorite_activities")
                /\ Contains(knowledge[pos].payload, ret[p], "tags")

----------------------------------------------------------------------------
(* Totality of the filter *)

(* C30: for every list of items and every lookup, a timezone-aware          *)
(* last_prompted_at included, filter_pending_for_prompt returns a list      *)
(* without raising and leaves both stores as they were.                     *)
C30_FilterIsTotal ==
    (Called /\ ret.op = "filter_pending_for_prompt") =>
       /\ ~ret.raised
       /\ inferences = <<>>
       /\ knowledge = <<>>

====
